---- MODULE Spec2Model ----
(***************************************************************************)
(* Model of the test execution pipeline: ExecutorAgent (executor.py),      *)
(* AnalyzerAgent (analyzer.py) and OrchestratorAgent (orchestrator.py).    *)
(*                                                                         *)
(* The program is single-threaded asyncio code: a coroutine runs without   *)
(* interruption from one await of browser I/O to the next.  Every action   *)
(* below is the code between two such awaits.                              *)
(***************************************************************************)
EXTENDS Integers, Sequences, FiniteSets, TLC

\* ------------------------------------------------------------------ bounds
NumTests == 2          \* tests of a batch under Spec
NumTestsCap == 6       \* tests of a batch under SpecCap (more than the cap)
MaxSteps == 3          \* longest step list under SpecSteps
MaxEvents == 1         \* request/response events one navigation may log
MaxFaults == 1         \* infrastructure failures in a batch under SpecCap
MaxCalls == 6          \* start_browser and stop_browser calls under SpecSession
MaxSaves == 3          \* saves of artifacts under SpecStore
NumRuns == 2           \* overlapping calls of run under SpecOverlap

\* orchestrator.py:34  concurrency = 5
concurrency == 5

None == "None"

Range(f) == { f[x] : x \in DOMAIN f }

\* ------------------------------------------------------------------ texts
\* Texts are sequences of characters, so that str.strip() is computed.
White == {" "}

RECURSIVE lstrip(_)
lstrip(s) == IF s # <<>> /\ Head(s) \in White THEN lstrip(Tail(s)) ELSE s

RECURSIVE rstrip(_)
rstrip(s) ==
  IF s # <<>> /\ s[Len(s)] \in White THEN rstrip(SubSeq(s, 1, Len(s) - 1)) ELSE s

\* str.strip() of executor.py:112
strip(s) == rstrip(lstrip(s))

\* expected_value params of the tests, and inner_text() values of the page
ExpectedValues == { <<"7">>, <<"7", " ">> }
ActualTexts == { <<"7">>, <<" ", "7">>, <<"8">>, <<>> }

\* ------------------------------------------------------------------ steps
KnownActions ==
  { "goto", "wait_for", "click_if", "type_random_number", "type_value",
    "submit", "check_selector", "check_value", "check_element_change" }
Actions == KnownActions \cup { "noop_unknown" }

\* executor.py:141, the actions whose escaping exception is a critical failure
CriticalActions == { "goto", "check_selector", "check_value", "check_element_change" }

\* A step: its action and the params the interpreter reads (has_url: params
\* holds "url"; expected_value: the text of params["expected_value"]).
Step(a, u, e) == [action |-> a, has_url |-> u, expected_value |-> e]

StepSet ==
  { Step("goto", u, <<>>) : u \in BOOLEAN }
  \cup { Step(a, FALSE, <<>>) : a \in Actions \ { "goto", "check_value" } }
  \cup { Step("check_value", FALSE, e) : e \in ExpectedValues }

\* What the page does when a step's browser calls are made.
\*   ok       every call succeeds (check_value: inner_text() returns text)
\*   raise    the call raises (a timeout, a navigation error)
\*   noinput  query_selector_all returns no element
\*   fallback submit: the click raises, the Enter keypress succeeds
\*   none     the step makes no browser call
Outcome(k, t, n) == [kind |-> k, text |-> t, net |-> n]

PageOutcomes(step) ==
  CASE step.action = "goto" ->
         IF step.has_url
         THEN { Outcome("ok", <<>>, n) : n \in 0..MaxEvents }
              \cup { Outcome("raise", <<>>, n) : n \in 0..MaxEvents }
         ELSE { Outcome("none", <<>>, 0) }
    [] step.action \in { "wait_for", "click_if", "check_selector", "check_element_change" } ->
         { Outcome("ok", <<>>, 0), Outcome("raise", <<>>, 0) }
    [] step.action \in { "type_random_number", "type_value" } ->
         { Outcome("ok", <<>>, 0), Outcome("noinput", <<>>, 0), Outcome("raise", <<>>, 0) }
    [] step.action = "submit" ->
         { Outcome("ok", <<>>, 0), Outcome("fallback", <<>>, 0), Outcome("raise", <<>>, 0) }
    [] step.action = "check_value" ->
         { Outcome("ok", t, 0) : t \in ActualTexts } \cup { Outcome("raise", <<>>, 0) }
    [] OTHER -> { Outcome("none", <<>>, 0) }

\* ------------------------------------------------------------ interpreter
\* executor.py:47-50, the locals of _run_steps
NewLocals == [console_logs |-> <<>>, network |-> <<>>, test_failed_on_step |-> FALSE]

Log(ty, tx) == [type |-> ty, text |-> tx]

RECURSIVE Events(_)
Events(n) == IF n = 0 THEN <<>> ELSE <<"event">> \o Events(n - 1)

\* (a mutant of Escapes: goto reads a param no test has, so it always raises)
EscapesEveryGoto(step, out) ==
  CASE step.action = "goto" -> TRUE
    [] step.action \in { "wait_for", "check_selector", "check_value",
                         "type_random_number", "type_value", "submit" } ->
         out.kind = "raise"
    [] OTHER -> FALSE

\* Does an exception leave the try body of the step (executor.py:65-137)?
\* click_if and check_element_change catch their own; a goto without a url
\* param raises KeyError at params["url"].
Escapes(step, out) ==
  CASE step.action = "goto" -> (~step.has_url) \/ out.kind = "raise"
    [] step.action \in { "wait_for", "check_selector", "check_value",
                         "type_random_number", "type_value", "submit" } ->
         out.kind = "raise"
    [] OTHER -> FALSE

\* executor.py:138-142, the handler of the step loop
\* (a mutant of StepError: every escaping exception is a critical failure)
StepErrorAlwaysCritical(loc, step) ==
  [loc EXCEPT !.console_logs = Append(@, Log("error", <<"step_error", step.action, "exc">>)),
              !.test_failed_on_step = TRUE]

StepError(loc, step) ==
  [loc EXCEPT !.console_logs = Append(@, Log("error", <<"step_error", step.action, "exc">>)),
              !.test_failed_on_step = @ \/ step.action \in CriticalActions]

\* executor.py:105-118, check_value once the element's text is read
CheckValue(loc, step, out) ==
  IF strip(out.text) # strip(step.expected_value)
  THEN [loc EXCEPT !.console_logs = Append(@, Log("assertion_error", <<"Assertion failed", strip(out.text), strip(step.expected_value)>>)),
                   !.test_failed_on_step = TRUE]
  ELSE [loc EXCEPT !.console_logs = Append(@, Log("assertion_success", <<"Assertion passed", strip(step.expected_value)>>))]

\* executor.py:121-134, check_element_change
CheckElementChange(loc, out) ==
  IF out.kind = "ok"
  THEN [loc EXCEPT !.console_logs = Append(@, Log("playability_success", <<"Playability check passed">>))]
  ELSE [loc EXCEPT !.console_logs = Append(@, Log("playability_error", <<"Playability check failed">>)),
                   !.test_failed_on_step = TRUE]

\* executor.py:52-54, the request/response listeners: a navigation adds events
Listen(loc, out) == [loc EXCEPT !.network = @ \o Events(out.net)]

\* executor.py:58-61, the skip of a step after a critical failure
Skip(loc, step) ==
  [loc EXCEPT !.console_logs =
     Append(@, Log("info", <<"step_skipped", step.action, "previous_assertion_failure">>))]

\* (a mutant of run_step: a skip clears the flag, so the next step runs)
run_step_clears(loc, step, out) ==
  IF loc.test_failed_on_step
  THEN [Skip(loc, step) EXCEPT !.test_failed_on_step = FALSE]
  ELSE IF Escapes(step, out) THEN StepError(Listen(loc, out), step)
  ELSE IF step.action = "check_value" THEN CheckValue(loc, step, out)
  ELSE IF step.action = "check_element_change" THEN CheckElementChange(loc, out)
  ELSE Listen(loc, out)

\* executor.py:56-142, one iteration of the step loop
run_step(loc, step, out) ==
  IF loc.test_failed_on_step
  THEN Skip(loc, step)
  ELSE IF Escapes(step, out) THEN StepError(Listen(loc, out), step)
  ELSE IF step.action = "check_value" THEN CheckValue(loc, step, out)
  ELSE IF step.action = "check_element_change" THEN CheckElementChange(loc, out)
  ELSE Listen(loc, out)

\* page.content() of executor.py:144
DomValues == { "", "<html>" }

\* executor.py:146-152, what _run_steps returns
Artifacts(loc, dom) ==
  [dom |-> dom, console |-> loc.console_logs, network |-> loc.network,
   critical_failure |-> loc.test_failed_on_step]

\* (a mutant of Verdict: an empty network log fails the test)
VerdictNeedsNetwork(artifacts) ==
  IF artifacts.critical_failure THEN "fail"
  ELSE IF artifacts.dom # "" /\ Len(artifacts.network) > 0 THEN "pass"
  ELSE "fail"

\* executor.py:188-194, the verdict
Verdict(artifacts) ==
  IF artifacts.critical_failure THEN "fail"
  ELSE IF artifacts.dom # "" /\ Len(artifacts.network) >= 0 THEN "pass"
  ELSE "fail"

\* ------------------------------------------------------------------ state
VARIABLES
  tests,      \* the batch handed to OrchestratorAgent.run: a sequence of [id, steps]
  main,       \* the coroutine OrchestratorAgent.run: pc, loop index, results, report
  semaphore,  \* asyncio.Semaphore(concurrency): value and FIFO waiters
  task,       \* task[i]: the coroutine sem_run(tests[i]) and the run_test call it is in
  executor,   \* the two ExecutorAgent objects: orch (orchestrator.py:14), ana (analyzer.py:15)
  pages,      \* pages created by new_page() and not closed: <<task, phase>>
  aux         \* faults: the infrastructure failures the environment may still
              \* cause; overtaken: a test finished before one submitted earlier

vars == <<tests, main, semaphore, task, executor, pages, aux>>

Tasks == 1..Len(tests)

\* executor.py:22-25
NoSession == [_playwright |-> None, _browser |-> None, _context |-> None, engines |-> 0]

\* the executor a phase runs on: orchestrator.py:23 and analyzer.py:35
ExecutorOf(phase) == IF phase = "initial" THEN "orch" ELSE "ana"

\* analyzer.py:24-31, the reduced steps
\* (a mutant of ReplayActions: the set named by the comment of analyzer.py:23)
ReplayActionsOfComment == { "goto", "check_selector" }

ReplayActions == { "goto", "check_selector", "wait_for" }
\* (a mutant of IsReplayStep: the checks of the test are replayed as well)
IsReplayStepWithChecks(s) ==
  s.action \in ReplayActions \cup { "check_value", "check_element_change" }

IsReplayStep(s) == s.action \in ReplayActions
reduced(test) == [id |-> <<test.id, "_replay">>, steps |-> SelectSeq(test.steps, IsReplayStep)]

\* (a mutant of Analysis: the score follows the replay's verdict)
AnalysisScoresReplay(initial_result, result_replay) ==
  [replay_verdict |-> result_replay.verdict,
   reproducible |-> (initial_result.verdict = result_replay.verdict),
   score |-> IF result_replay.verdict = "pass" THEN "1.0" ELSE "0.0"]

\* analyzer.py:37-46
Analysis(initial_result, result_replay) ==
  [replay_verdict |-> result_replay.verdict,
   reproducible |-> (initial_result.verdict = result_replay.verdict),
   score |-> IF initial_result.verdict = result_replay.verdict THEN "1.0" ELSE "0.0"]

\* the values of fields that hold nothing yet
NoTest == [id |-> <<>>, steps |-> <<>>]
NoResult == [id |-> <<>>, verdict |-> None]
NoAnalysis == [replay_verdict |-> None, reproducible |-> FALSE, score |-> None]
NoFinal == [id |-> <<>>, verdict |-> None, analysis |-> NoAnalysis]
NoReport == [summary |-> [total |-> 0, passed |-> 0, failed |-> 0], tests |-> <<>>]

\* A task that has not entered run_test, or has left it.
Idle(pc) ==
  [pc |-> pc, phase |-> None, test |-> NoTest, idx |-> 0, loc |-> NewLocals,
   executed |-> <<>>, obs |-> <<>>, dom |-> None, exc |-> FALSE,
   result |-> NoResult, final |-> NoFinal]

\* executor.py:158-166: run_test up to its first await.  With no context it
\* calls start_browser, which returns at once when _playwright is set
\* (executor.py:29); new_page() on a None context raises AttributeError.
EnterPc(ex) ==
  IF ex._context # None THEN "new_page"
  ELSE IF ex._playwright = None THEN "start_playwright"
  ELSE "raised"

Enter(rec, phase, test) ==
  LET pc == EnterPc(executor[ExecutorOf(phase)]) IN
  IF pc = "raised" THEN Idle("raised")
  ELSE [rec EXCEPT !.pc = pc, !.phase = phase, !.test = test, !.idx = 1,
                   !.loc = NewLocals, !.executed = <<>>, !.obs = <<>>, !.dom = None,
                   !.exc = FALSE]

\* (a mutant of Settle: the slot is released when run_test ends, before analyze)
SettleBeforeAnalyze(i, rec) ==
  /\ task' = [task EXCEPT ![i] = rec]
  /\ semaphore' = IF task[i].phase = "initial" THEN semaphore + 1 ELSE semaphore

\* (a mutant of Settle: the slot is released on return only)
SettleOnReturn(i, rec) ==
  /\ task' = [task EXCEPT ![i] = rec]
  /\ semaphore' = IF rec.pc = "done" THEN semaphore + 1 ELSE semaphore

\* orchestrator.py:38-40: leaving "async with semaphore", by return or by
\* exception, releases the slot.
Settle(i, rec) ==
  /\ task' = [task EXCEPT ![i] = rec]
  /\ semaphore' = IF rec.pc \in { "done", "raised" }
                  THEN semaphore + 1
                  ELSE semaphore

\* (a mutant of Report: a test counts as passed only if its replay passed too)
ReportReproduciblePasses(results) ==
  [summary |->
     [total |-> Len(results),
      passed |-> Cardinality({ k \in 1..Len(results) :
                    results[k].verdict = "pass" /\ results[k].analysis.reproducible }),
      failed |-> Cardinality({ k \in 1..Len(results) : results[k].verdict # "pass" })],
   tests |-> results]

\* orchestrator.py:46-54
Report(results) ==
  [summary |->
     [total |-> Len(results),
      passed |-> Cardinality({ k \in 1..Len(results) : results[k].verdict = "pass" }),
      failed |-> Cardinality({ k \in 1..Len(results) : results[k].verdict # "pass" })],
   tests |-> results]

\* ---------------------------------------------------------------- actions
\* orchestrator.py:31, executor.py:29-30: run() calls start_browser
RunCalled ==
  /\ main.pc = "idle"
  /\ main' = [main EXCEPT !.pc = IF executor.orch._playwright = None
                                 THEN "start_playwright" ELSE "create_tasks"]
  /\ UNCHANGED <<tests, semaphore, task, executor, pages, aux>>

\* executor.py:30
MainPlaywrightStarted ==
  /\ main.pc = "start_playwright"
  /\ executor' = [executor EXCEPT !.orch._playwright = "engine", !.orch.engines = @ + 1]
  /\ main' = [main EXCEPT !.pc = "launch"]
  /\ UNCHANGED <<tests, semaphore, task, pages, aux>>

\* executor.py:31
MainLaunched ==
  /\ main.pc = "launch"
  /\ executor' = [executor EXCEPT !.orch._browser = "browser"]
  /\ main' = [main EXCEPT !.pc = "new_context"]
  /\ UNCHANGED <<tests, semaphore, task, pages, aux>>

\* executor.py:32
MainContextCreated ==
  /\ main.pc = "new_context"
  /\ executor' = [executor EXCEPT !.orch._context = "context"]
  /\ main' = [main EXCEPT !.pc = "create_tasks"]
  /\ UNCHANGED <<tests, semaphore, task, pages, aux>>

\* orchestrator.py:34-43: the semaphore, the tasks, and the first await t.
\* The tasks start in creation order, so they queue on the semaphore in
\* submission order.
CreateTasks ==
  /\ main.pc = "create_tasks"
  /\ semaphore' = concurrency
  /\ task' = [i \in Tasks |-> Idle("acquire")]
  /\ main' = [main EXCEPT !.pc = "gather", !.i = 1, !.results = <<>>]
  /\ UNCHANGED <<tests, executor, pages, aux>>

\* orchestrator.py:39 and 21-23: a slot is taken (asyncio.Semaphore wakes its
\* waiters first come first served) and run_test is entered
Acquire(i) ==
  /\ task[i].pc = "acquire"
  /\ semaphore > 0
  /\ \A j \in Tasks : j < i => task[j].pc # "acquire"
  /\ LET rec == Enter(task[i], "initial", tests[i]) IN
       /\ task' = [task EXCEPT ![i] = rec]
       /\ semaphore' = IF rec.pc = "raised" THEN semaphore ELSE semaphore - 1
  /\ UNCHANGED <<tests, main, executor, pages, aux>>

\* executor.py:30, in a lazy start from run_test
PlaywrightStarted(i) ==
  /\ task[i].pc = "start_playwright"
  /\ executor' = [executor EXCEPT ![ExecutorOf(task[i].phase)]._playwright = "engine",
                                  ![ExecutorOf(task[i].phase)].engines = @ + 1]
  /\ task' = [task EXCEPT ![i].pc = "launch"]
  /\ UNCHANGED <<tests, main, semaphore, pages, aux>>

\* executor.py:31
Launched(i) ==
  /\ task[i].pc = "launch"
  /\ executor' = [executor EXCEPT ![ExecutorOf(task[i].phase)]._browser = "browser"]
  /\ task' = [task EXCEPT ![i].pc = "new_context"]
  /\ UNCHANGED <<tests, main, semaphore, pages, aux>>

\* executor.py:32, then 161-166: the context is stored and new_page() called
ContextCreated(i) ==
  /\ task[i].pc = "new_context"
  /\ executor' = [executor EXCEPT ![ExecutorOf(task[i].phase)]._context = "context"]
  /\ task' = [task EXCEPT ![i].pc = "new_page"]
  /\ UNCHANGED <<tests, main, semaphore, pages, aux>>

\* executor.py:166-169: new_page() returns a page, set_viewport_size is called
PageCreated(i) ==
  /\ task[i].pc = "new_page"
  /\ pages' = pages \cup { <<i, task[i].phase>> }
  /\ task' = [task EXCEPT ![i].pc = "set_viewport_size"]
  /\ UNCHANGED <<tests, main, semaphore, executor, aux>>

\* executor.py:166: new_page() raises; the exception leaves run_test
PageFails(i) ==
  /\ task[i].pc = "new_page"
  /\ aux.faults > 0
  /\ aux' = [aux EXCEPT !.faults = @ - 1]
  /\ Settle(i, Idle("raised"))
  /\ UNCHANGED <<tests, main, executor, pages>>

\* executor.py:169-172 and 47-56: the viewport is set, _run_steps begins
ViewportSet(i) ==
  /\ task[i].pc = "set_viewport_size"
  /\ task' = [task EXCEPT ![i].pc = IF task[i].test.steps = <<>> THEN "capture" ELSE "steps",
                          ![i].loc = NewLocals]
  /\ UNCHANGED <<tests, main, semaphore, executor, pages, aux>>

\* executor.py:169: set_viewport_size raises before the try of line 171, so
\* the exception leaves run_test and page.close() is not reached
ViewportFails(i) ==
  /\ task[i].pc = "set_viewport_size"
  /\ aux.faults > 0
  /\ aux' = [aux EXCEPT !.faults = @ - 1]
  /\ Settle(i, Idle("raised"))
  /\ UNCHANGED <<tests, main, executor, pages>>

\* the outcomes an iteration of the loop can meet
IterationOutcomes(loc, step) ==
  IF loc.test_failed_on_step THEN { Outcome("none", <<>>, 0) } ELSE PageOutcomes(step)

\* executor.py:56-142: one iteration of the step loop
StepDone(i) ==
  /\ task[i].pc = "steps"
  /\ LET t == task[i]
         step == t.test.steps[t.idx]
     IN \E out \in IterationOutcomes(t.loc, step) :
          task' = [task EXCEPT
            ![i].loc = run_step(t.loc, step, out),
            ![i].executed = IF t.loc.test_failed_on_step THEN @ ELSE Append(@, t.idx),
            ![i].obs = Append(@, IF t.loc.test_failed_on_step THEN Outcome("skipped", <<>>, 0) ELSE out),
            ![i].idx = t.idx + 1,
            ![i].pc = IF t.idx = Len(t.test.steps) THEN "capture" ELSE "steps"]
  /\ UNCHANGED <<tests, main, semaphore, executor, pages, aux>>

\* executor.py:144-145 and 174: content() and screenshot() return, the
\* finally clause calls page.close()
Captured(i) ==
  /\ task[i].pc = "capture"
  /\ \E dom \in DomValues :
       task' = [task EXCEPT ![i].dom = dom, ![i].pc = "close"]
  /\ UNCHANGED <<tests, main, semaphore, executor, pages, aux>>

\* executor.py:144-145 and 174: content() or screenshot() raises, the finally
\* clause calls page.close() with the exception pending
CaptureFails(i) ==
  /\ task[i].pc = "capture"
  /\ aux.faults > 0
  /\ aux' = [aux EXCEPT !.faults = @ - 1]
  /\ task' = [task EXCEPT ![i].exc = TRUE, ![i].pc = "close"]
  /\ UNCHANGED <<tests, main, semaphore, executor, pages>>

\* (a mutant of own_artifacts: the failure flag is kept on the ExecutorAgent
\* and shared by the runs in flight on it)
shared_artifacts(i) ==
  [Artifacts(task[i].loc, task[i].dom) EXCEPT !.critical_failure =
     \E j \in Tasks : /\ task[j].pc \in { "steps", "capture", "close" }
                      /\ task[j].phase = task[i].phase
                      /\ task[j].loc.test_failed_on_step]

\* executor.py:172: the artifacts _run_steps returned to this run_test
own_artifacts(i) == Artifacts(task[i].loc, task[i].dom)

\* executor.py:196-209
Result(i) == [id |-> task[i].test.id, verdict |-> Verdict(own_artifacts(i))]

\* orchestrator.py:25-27 and 40: the analysis is attached, the result returned
Finish(i, result_replay) ==
  [Idle("done") EXCEPT
     !.final = [id |-> task[i].result.id, verdict |-> task[i].result.verdict,
                analysis |-> Analysis(task[i].result, result_replay)]]

\* task i returns while a task created before it has not ended
Overtakes(i) ==
  /\ task[i].phase = "replay"
  /\ \E j \in Tasks : j < i /\ task[j].pc \notin { "done", "raised" }

\* executor.py:174-209, then orchestrator.py:23-27 or analyzer.py:35-46:
\* page.close() returns.  A pending exception goes on; otherwise the
\* artifacts are saved and the verdict computed.  The initial run is followed
\* by analyze, which enters the replay run; the replay run is followed by
\* the analysis and the return of the task.
Closed(i) ==
  /\ task[i].pc = "close"
  /\ pages' = pages \ { <<i, task[i].phase>> }
  /\ IF task[i].exc
     THEN Settle(i, Idle("raised"))
     ELSE IF task[i].phase = "initial"
     THEN Settle(i, Enter([task[i] EXCEPT !.result = Result(i)], "replay", reduced(tests[i])))
     ELSE Settle(i, Finish(i, Result(i)))
  /\ aux' = [aux EXCEPT !.overtaken = @ \/ (~task[i].exc /\ Overtakes(i))]
  /\ UNCHANGED <<tests, main, executor>>

\* artifact_manager.py:12-21 called at executor.py:177-184: a write raises
\* (disk full, invalid path) after the page was closed
PersistFails(i) ==
  /\ task[i].pc = "close"
  /\ ~task[i].exc
  /\ aux.faults > 0
  /\ aux' = [aux EXCEPT !.faults = @ - 1]
  /\ pages' = pages \ { <<i, task[i].phase>> }
  /\ Settle(i, Idle("raised"))
  /\ UNCHANGED <<tests, main, executor>>

\* (a mutant of StopPc: the engine is stopped first and the context closed last)
StopPcEngineFirst(ex) ==
  IF ex._playwright # None THEN "stop_playwright"
  ELSE IF ex._browser # None THEN "close_browser"
  ELSE IF ex._context # None THEN "close_context"
  ELSE "returned"

\* executor.py:36-44: the next await of stop_browser
StopPc(ex) ==
  IF ex._context # None THEN "close_context"
  ELSE IF ex._browser # None THEN "close_browser"
  ELSE IF ex._playwright # None THEN "stop_playwright"
  ELSE "returned"

\* (a mutant of Gathered: results are taken as the tasks complete)
GatheredAsCompleted ==
  /\ main.pc = "gather"
  /\ \E k \in Tasks :
       /\ task[k].pc = "done"
       /\ \A r \in 1..Len(main.results) : main.results[r].id # task[k].final.id
       /\ LET results == Append(main.results, task[k].final) IN
            IF Len(results) = Len(tests)
            THEN main' = [main EXCEPT !.results = results, !.report = Report(results),
                                      !.stops = @ + 1, !.pc = StopPc(executor.orch)]
            ELSE main' = [main EXCEPT !.results = results]
  /\ UNCHANGED <<tests, semaphore, task, executor, pages, aux>>

\* orchestrator.py:43-57: "results.append(await t)" for the task awaited; after
\* the last one the report is built and stop_browser called
Gathered ==
  /\ main.pc = "gather"
  /\ task[main.i].pc = "done"
  /\ LET results == Append(main.results, task[main.i].final) IN
       IF main.i = Len(tests)
       THEN main' = [main EXCEPT !.results = results, !.report = Report(results),
                                 !.stops = @ + 1, !.pc = StopPc(executor.orch)]
       ELSE main' = [main EXCEPT !.results = results, !.i = @ + 1]
  /\ UNCHANGED <<tests, semaphore, task, executor, pages, aux>>

\* orchestrator.py:44: the awaited task ended with an exception, which
\* "await t" raises in run
GatherRaises ==
  /\ main.pc = "gather"
  /\ task[main.i].pc = "raised"
  /\ main' = [main EXCEPT !.pc = "raised"]
  /\ UNCHANGED <<tests, semaphore, task, executor, pages, aux>>

\* executor.py:37-39
ContextClosed ==
  /\ main.pc = "close_context"
  /\ executor' = [executor EXCEPT !.orch._context = None]
  /\ main' = [main EXCEPT !.pc = StopPc(executor'.orch)]
  /\ UNCHANGED <<tests, semaphore, task, pages, aux>>

\* executor.py:40-42
BrowserClosed ==
  /\ main.pc = "close_browser"
  /\ executor' = [executor EXCEPT !.orch._browser = None]
  /\ main' = [main EXCEPT !.pc = StopPc(executor'.orch)]
  /\ UNCHANGED <<tests, semaphore, task, pages, aux>>

\* executor.py:43-44, orchestrator.py:59
PlaywrightStopped ==
  /\ main.pc = "stop_playwright"
  /\ executor' = [executor EXCEPT !.orch._playwright = None]
  /\ main' = [main EXCEPT !.pc = "returned"]
  /\ UNCHANGED <<tests, semaphore, task, pages, aux>>

\* ------------------------------------------------------------------ specs
\* Test.id, unique within a batch
TestId(k) == <<"t", k>>

Batch(n, stepLists) ==
  { [k \in 1..n |-> [id |-> TestId(k), steps |-> f[k]]] : f \in [1..n -> stepLists] }

InitRest(faults) ==
  /\ aux = [faults |-> faults, overtaken |-> FALSE]
  /\ main = [pc |-> "idle", i |-> 0, results |-> <<>>, report |-> NoReport, stops |-> 0]
  /\ semaphore = 0
  /\ task = [i \in Tasks |-> Idle("absent")]
  /\ executor = [orch |-> NoSession, ana |-> NoSession]
  /\ pages = {}

\* step lists of the tests of a batch
BatchSteps ==
  { <<Step("check_selector", FALSE, <<>>)>>,
    <<Step("check_element_change", FALSE, <<>>), Step("click_if", FALSE, <<>>)>> }

Init ==
  /\ tests \in Batch(NumTests, BatchSteps)
  /\ InitRest(NumTests)

Next ==
  \/ RunCalled
  \/ MainPlaywrightStarted
  \/ MainLaunched
  \/ MainContextCreated
  \/ CreateTasks
  \/ \E i \in Tasks : Acquire(i)
  \/ \E i \in Tasks : PlaywrightStarted(i)
  \/ \E i \in Tasks : Launched(i)
  \/ \E i \in Tasks : ContextCreated(i)
  \/ \E i \in Tasks : PageCreated(i)
  \/ \E i \in Tasks : PageFails(i)
  \/ \E i \in Tasks : ViewportSet(i)
  \/ \E i \in Tasks : ViewportFails(i)
  \/ \E i \in Tasks : StepDone(i)
  \/ \E i \in Tasks : Captured(i)
  \/ \E i \in Tasks : CaptureFails(i)
  \/ \E i \in Tasks : Closed(i)
  \/ \E i \in Tasks : PersistFails(i)
  \/ Gathered
  \/ GatherRaises
  \/ ContextClosed
  \/ BrowserClosed
  \/ PlaywrightStopped

Spec == Init /\ [][Next]_vars

\* every step list of at most n steps
RECURSIVE StepLists(_)
StepLists(n) ==
  IF n = 0 THEN { <<>> }
  ELSE LET shorter == StepLists(n - 1) IN
       shorter \cup { Append(l, s) : l \in { x \in shorter : Len(x) = n - 1 }, s \in StepSet }

\* one test of any step list: the interpreter on every input
InitSteps ==
  /\ tests \in Batch(1, StepLists(MaxSteps))
  /\ InitRest(1)

SpecSteps == InitSteps /\ [][Next]_vars

\* ---- the batch above the concurrency cap
\* SpecCap takes the same program in larger steps, so that a batch of more
\* tests than the semaphore admits can be explored: a run_test call is taken
\* from the creation of its page to its end in one step, and the lazy start
\* of the analyzer's session in one step with the call that makes it.

\* executor.py:56-142: the locals after the whole step loop, for every
\* behaviour of the page
RECURSIVE RunAll(_, _, _)
RunAll(loc, steps, k) ==
  IF k > Len(steps) THEN { loc }
  ELSE UNION { RunAll(run_step(loc, steps[k], out), steps, k + 1) :
                 out \in IterationOutcomes(loc, steps[k]) }

\* executor.py:27-32 and 158-166: run_test is entered and start_browser runs
\* to its end
StartedSession ==
  [_playwright |-> "engine", _browser |-> "browser", _context |-> "context", engines |-> 1]

EnterStarted(rec, phase, test) ==
  [rec EXCEPT !.pc = "new_page", !.phase = phase, !.test = test, !.idx = 1,
              !.loc = NewLocals, !.executed = <<>>, !.obs = <<>>, !.dom = None,
              !.exc = FALSE]

\* executor.py:169-209 with orchestrator.py:23-27 and analyzer.py:24-46: from
\* set_viewport_size to the return of run_test, the page closed on the way;
\* then the replay run is entered, or the task returns
RunCompleted(i) ==
  /\ task[i].pc = "set_viewport_size"
  /\ pages' = pages \ { <<i, task[i].phase>> }
  /\ \E loc \in RunAll(NewLocals, task[i].test.steps, 1), dom \in DomValues :
       LET result == [id |-> task[i].test.id, verdict |-> Verdict(Artifacts(loc, dom))] IN
       IF task[i].phase = "initial"
       THEN /\ Settle(i, EnterStarted([task[i] EXCEPT !.result = result],
                                      "replay", reduced(tests[i])))
            /\ executor' =
                 IF executor.ana._context = None
                 THEN [executor EXCEPT !.ana = [StartedSession EXCEPT !.engines = executor.ana.engines + 1]]
                 ELSE executor
       ELSE /\ Settle(i, Finish(i, result))
            /\ UNCHANGED executor
  /\ aux' = [aux EXCEPT !.overtaken = @ \/ Overtakes(i)]
  /\ UNCHANGED <<tests, main>>

\* executor.py:144-145, 174 and 177-184: the final capture or an artifact
\* write raises; the page was closed by the finally clause
RunFails(i) ==
  /\ task[i].pc = "set_viewport_size"
  /\ aux.faults > 0
  /\ aux' = [aux EXCEPT !.faults = @ - 1]
  /\ pages' = pages \ { <<i, task[i].phase>> }
  /\ Settle(i, Idle("raised"))
  /\ UNCHANGED <<tests, main, executor>>

InitCap ==
  /\ tests \in Batch(NumTestsCap, { <<Step("goto", FALSE, <<>>)>> })
  /\ InitRest(MaxFaults)

NextCap ==
  \/ RunCalled
  \/ MainPlaywrightStarted
  \/ MainLaunched
  \/ MainContextCreated
  \/ CreateTasks
  \/ \E i \in Tasks : Acquire(i)
  \/ \E i \in Tasks : PageCreated(i)
  \/ \E i \in Tasks : PageFails(i)
  \/ \E i \in Tasks : ViewportFails(i)
  \/ \E i \in Tasks : RunCompleted(i)
  \/ \E i \in Tasks : RunFails(i)
  \/ Gathered
  \/ GatherRaises
  \/ ContextClosed
  \/ BrowserClosed
  \/ PlaywrightStopped

SpecCap == InitCap /\ [][NextCap]_vars

\* ---- the session of one ExecutorAgent
\* SpecSession takes one ExecutorAgent and one caller that calls
\* start_browser and stop_browser one after the other, in any order.  main
\* is the caller: the call it is in, and a record of what its calls did
\* (created: the resources made since the last stop_browser call; closed:
\* the resources the last stop_browser call closed; before: the session as
\* that call found it).

\* the resources a stop_browser call finds open, in the order of executor.py:36-44
OpenResources(ex) ==
  (IF ex._context # None THEN <<"context">> ELSE <<>>)
  \o (IF ex._browser # None THEN <<"browser">> ELSE <<>>)
  \o (IF ex._playwright # None THEN <<"engine">> ELSE <<>>)

\* where a caller of stop_browser is after an await of it
SessionPc(ex) == IF StopPc(ex) = "returned" THEN "idle" ELSE StopPc(ex)

\* (a mutant of SessionStartBrowser: start_browser without the test of line 29)
SessionStartBrowserUnguarded ==
  /\ main.pc = "idle"
  /\ main.calls < MaxCalls
  /\ main' = [main EXCEPT !.pc = "start_playwright",
                          !.calls = @ + 1, !.starts = @ + 1, !.stops = 0]
  /\ UNCHANGED <<tests, semaphore, task, executor, pages, aux>>

\* executor.py:27-30: start_browser is called; it returns at once when
\* _playwright is set
SessionStartBrowser ==
  /\ main.pc = "idle"
  /\ main.calls < MaxCalls
  /\ main' = [main EXCEPT !.pc = IF executor.orch._playwright = None
                                 THEN "start_playwright" ELSE "idle",
                          !.calls = @ + 1, !.starts = @ + 1, !.stops = 0]
  /\ UNCHANGED <<tests, semaphore, task, executor, pages, aux>>

\* executor.py:30
SessionPlaywrightStarted ==
  /\ main.pc = "start_playwright"
  /\ executor' = [executor EXCEPT !.orch._playwright = "engine", !.orch.engines = @ + 1]
  /\ main' = [main EXCEPT !.pc = "launch", !.created = Append(@, "engine")]
  /\ UNCHANGED <<tests, semaphore, task, pages, aux>>

\* executor.py:31
SessionLaunched ==
  /\ main.pc = "launch"
  /\ executor' = [executor EXCEPT !.orch._browser = "browser"]
  /\ main' = [main EXCEPT !.pc = "new_context", !.created = Append(@, "browser")]
  /\ UNCHANGED <<tests, semaphore, task, pages, aux>>

\* executor.py:32: the context is stored and start_browser returns
SessionContextCreated ==
  /\ main.pc = "new_context"
  /\ executor' = [executor EXCEPT !.orch._context = "context"]
  /\ main' = [main EXCEPT !.pc = "idle", !.created = Append(@, "context")]
  /\ UNCHANGED <<tests, semaphore, task, pages, aux>>

\* executor.py:34-44: stop_browser is called and runs to its first await
SessionStopBrowser ==
  /\ main.pc = "idle"
  /\ main.calls < MaxCalls
  /\ main' = [main EXCEPT !.pc = SessionPc(executor.orch),
                          !.calls = @ + 1, !.stops = @ + 1, !.starts = 0,
                          !.stopped = TRUE, !.before = executor.orch,
                          !.created = <<>>, !.closed = <<>>]
  /\ UNCHANGED <<tests, semaphore, task, executor, pages, aux>>

\* executor.py:37-39
SessionContextClosed ==
  /\ main.pc = "close_context"
  /\ executor' = [executor EXCEPT !.orch._context = None]
  /\ main' = [main EXCEPT !.pc = SessionPc(executor'.orch), !.closed = Append(@, "context")]
  /\ UNCHANGED <<tests, semaphore, task, pages, aux>>

\* executor.py:40-42
SessionBrowserClosed ==
  /\ main.pc = "close_browser"
  /\ executor' = [executor EXCEPT !.orch._browser = None]
  /\ main' = [main EXCEPT !.pc = SessionPc(executor'.orch), !.closed = Append(@, "browser")]
  /\ UNCHANGED <<tests, semaphore, task, pages, aux>>

\* executor.py:43-44
SessionPlaywrightStopped ==
  /\ main.pc = "stop_playwright"
  /\ executor' = [executor EXCEPT !.orch._playwright = None]
  /\ main' = [main EXCEPT !.pc = SessionPc(executor'.orch), !.closed = Append(@, "engine")]
  /\ UNCHANGED <<tests, semaphore, task, pages, aux>>

\* executor.py:22-25: the agent as constructed, and a caller that made no call
InitSession ==
  /\ tests = <<>>
  /\ main = [pc |-> "idle", calls |-> 0, starts |-> 0, stops |-> 0, stopped |-> FALSE,
             before |-> NoSession, created |-> <<>>, closed |-> <<>>]
  /\ semaphore = 0
  /\ task = <<>>
  /\ executor = [orch |-> NoSession, ana |-> NoSession]
  /\ pages = {}
  /\ aux = [faults |-> 0, overtaken |-> FALSE]

NextSession ==
  \/ SessionStartBrowser
  \/ SessionPlaywrightStarted
  \/ SessionLaunched
  \/ SessionContextCreated
  \/ SessionStopBrowser
  \/ SessionContextClosed
  \/ SessionBrowserClosed
  \/ SessionPlaywrightStopped

SpecSession == InitSession /\ [][NextSession]_vars

\* ---- the end-to-end batch
\* SpecE2E runs one batch of three tests against pages that behave as the
\* scenario says: test 1 navigates and finds the body, test 2 navigates and
\* reads a value that is not the expected one, test 3 navigates to an
\* unreachable URL.  No call of the browser or of the artifact store fails
\* otherwise, and every captured document has content.
E2ETests ==
  << [id |-> TestId(1),
      steps |-> <<Step("goto", TRUE, <<>>), Step("check_selector", FALSE, <<>>)>>],
     [id |-> TestId(2),
      steps |-> <<Step("goto", TRUE, <<>>), Step("check_value", FALSE, <<"7">>),
                  Step("click_if", FALSE, <<>>), Step("submit", FALSE, <<>>)>>],
     [id |-> TestId(3),
      steps |-> <<Step("goto", TRUE, <<>>)>>] >>

\* the tasks whose url is unreachable: that of test 3, in its run and its replay
E2EUnreachable(i) == i = 3

\* what the pages of the scenario do at a step
E2EOutcomes(i, loc, step) ==
  IF loc.test_failed_on_step THEN { Outcome("none", <<>>, 0) }
  ELSE CASE step.action = "goto" ->
              IF E2EUnreachable(i) THEN { Outcome("raise", <<>>, 0) }
              ELSE { Outcome("ok", <<>>, n) : n \in 0..MaxEvents }
         [] step.action = "check_value" -> { Outcome("ok", <<"8">>, 0) }
         [] OTHER -> { Outcome("ok", <<>>, 0) }

\* executor.py:56-142: one iteration of the step loop, on the scenario's pages
StepDoneE2E(i) ==
  /\ task[i].pc = "steps"
  /\ LET t == task[i]
         step == t.test.steps[t.idx]
     IN \E out \in E2EOutcomes(i, t.loc, step) :
          task' = [task EXCEPT
            ![i].loc = run_step(t.loc, step, out),
            ![i].executed = IF t.loc.test_failed_on_step THEN @ ELSE Append(@, t.idx),
            ![i].obs = Append(@, IF t.loc.test_failed_on_step THEN Outcome("skipped", <<>>, 0) ELSE out),
            ![i].idx = t.idx + 1,
            ![i].pc = IF t.idx = Len(t.test.steps) THEN "capture" ELSE "steps"]
  /\ UNCHANGED <<tests, main, semaphore, executor, pages, aux>>

\* executor.py:144-145 and 174: content() returns the document
CapturedE2E(i) ==
  /\ task[i].pc = "capture"
  /\ task' = [task EXCEPT ![i].dom = "<html>", ![i].pc = "close"]
  /\ UNCHANGED <<tests, main, semaphore, executor, pages, aux>>

InitE2E ==
  /\ tests = E2ETests
  /\ InitRest(0)

NextE2E ==
  \/ RunCalled
  \/ MainPlaywrightStarted
  \/ MainLaunched
  \/ MainContextCreated
  \/ CreateTasks
  \/ \E i \in Tasks : Acquire(i)
  \/ \E i \in Tasks : PlaywrightStarted(i)
  \/ \E i \in Tasks : Launched(i)
  \/ \E i \in Tasks : ContextCreated(i)
  \/ \E i \in Tasks : PageCreated(i)
  \/ \E i \in Tasks : ViewportSet(i)
  \/ \E i \in Tasks : StepDoneE2E(i)
  \/ \E i \in Tasks : CapturedE2E(i)
  \/ \E i \in Tasks : Closed(i)
  \/ Gathered
  \/ GatherRaises
  \/ ContextClosed
  \/ BrowserClosed
  \/ PlaywrightStopped

SpecE2E == InitE2E /\ [][NextE2E]_vars

\* ---- scheduling
\* The event loop runs a coroutine that is ready, and every browser call
\* awaited ends (each has a timeout): while a step is possible, a step is
\* taken.
SpecCapFair == SpecCap /\ WF_vars(NextCap)

\* ---- the artifact store
\* SpecStore takes the artifact directory alone: run_test calls that have
\* closed their page save their artifacts (executor.py:176-184), for test ids
\* and artifacts drawn from small sets.  The code from line 176 to line 184
\* has no await, so a save is one step.  aux.files is the directory: the
\* bytes of every file, by path.  The specifications of the pipeline do not
\* keep the directory; no property checked under them reads it.

\* paths are sequences of characters and names; os.path.join puts a
\* separator between its arguments (no id holds one: planner.py:92 and 116
\* make ids of hexadecimal digits, analyzer.py:25 appends "_replay")
join(dir, rest) == dir \o <<"/">> \o rest

ARTIFACTS_DIR == <<"artifacts">>

FileNames == { "screenshot.png", "dom.html", "console.json", "network.json" }

\* test ids: two tests, and the replay of the first
StoreIds == { <<"a">>, <<"a", "b">>, <<"a", "_replay">> }

\* the bytes of the four files of a run: screenshot, encoded dom, console, network
Bundle(s, d, c, n) ==
  [n0 \in FileNames |->
     CASE n0 = "screenshot.png" -> s
       [] n0 = "dom.html" -> d
       [] n0 = "console.json" -> c
       [] n0 = "network.json" -> n]

Bundles ==
  { Bundle(<<1>>, <<2, 2>>, <<3>>, <<>>),
    Bundle(<<4, 4>>, <<5>>, <<>>, <<6>>),
    Bundle(<<1>>, <<5>>, <<3, 3, 3>>, <<6>>) }

\* the directory with the file at path holding bytes
Stored(files, path, bytes) ==
  [q \in DOMAIN files \cup { path } |-> IF q = path THEN bytes ELSE files[q]]

\* (a mutant of save_artifact: the file is opened for appending)
save_artifact_appending(files, test_dir, name, content) ==
  LET path == join(test_dir, <<name>>)
      opened == IF path \in DOMAIN files THEN files ELSE Stored(files, path, <<>>)
  IN Stored(opened, path, opened[path] \o content)

\* artifact_manager.py:12-21: open(path, "wb") creates the file or truncates
\* it, f.write(content) writes the bytes from its start
save_artifact(files, test_dir, name, content) ==
  LET path == join(test_dir, <<name>>)
      opened == Stored(files, path, <<>>)
  IN Stored(opened, path, opened[path] \o content)

\* executor.py:177-184: the four files of a test, in the directory of its id
save_artifacts(files, out_dir, id, artifacts) ==
  LET test_dir == join(out_dir, id)
      f1 == save_artifact(files, test_dir, "screenshot.png", artifacts["screenshot.png"])
      f2 == save_artifact(f1, test_dir, "dom.html", artifacts["dom.html"])
      f3 == save_artifact(f2, test_dir, "console.json", artifacts["console.json"])
  IN save_artifact(f3, test_dir, "network.json", artifacts["network.json"])

NoSave == [id |-> <<>>, artifacts |-> Bundle(<<>>, <<>>, <<>>, <<>>)]

\* executor.py:176-184: a run_test call saves its artifacts.  main records the
\* last two saves.
ArtifactsSaved ==
  /\ main.saves < MaxSaves
  /\ \E id \in StoreIds, artifacts \in Bundles :
       /\ aux' = [aux EXCEPT !.files = save_artifacts(aux.files, ARTIFACTS_DIR, id, artifacts)]
       /\ main' = [main EXCEPT !.saves = @ + 1, !.prev = main.last,
                               !.last = [id |-> id, artifacts |-> artifacts]]
  /\ UNCHANGED <<tests, semaphore, task, executor, pages>>

InitStore ==
  /\ tests = <<>>
  /\ main = [pc |-> "idle", saves |-> 0, last |-> NoSave, prev |-> NoSave]
  /\ semaphore = 0
  /\ task = <<>>
  /\ executor = [orch |-> NoSession, ana |-> NoSession]
  /\ pages = {}
  /\ aux = [faults |-> 0, overtaken |-> FALSE, files |-> <<>>]

NextStore == ArtifactsSaved

SpecStore == InitStore /\ [][NextStore]_vars

\* ---- overlapping batches
\* SpecOverlap takes two calls of run on the one OrchestratorAgent of
\* main.py:33, as two execute_tests requests in flight make (main.py:65-92).
\* The calls share self.executor and self.analyzer; each has its own
\* semaphore and its own batch, here of one test: main[r], semaphore[r] and
\* task[r] are those of call r, and tests[r] is its test.  A run_test call is
\* taken in the steps of SpecCap, and analyze in one step.  No call of the
\* browser fails unless its context or its page was closed.
Runs == 1..NumRuns

\* the context of the orchestrator's ExecutorAgent is there and no
\* stop_browser call has begun to close it
ContextOpen ==
  /\ executor.orch._context # None
  /\ \A q \in Runs : main[q].pc # "close_context"

\* orchestrator.py:31, executor.py:29-30
OvRunCalled(r) ==
  /\ main[r].pc = "idle"
  /\ main' = [main EXCEPT ![r].pc = IF executor.orch._playwright = None
                                    THEN "start_playwright" ELSE "create_tasks"]
  /\ UNCHANGED <<tests, semaphore, task, executor, pages, aux>>

\* executor.py:30
OvPlaywrightStarted(r) ==
  /\ main[r].pc = "start_playwright"
  /\ executor' = [executor EXCEPT !.orch._playwright = "engine", !.orch.engines = @ + 1]
  /\ main' = [main EXCEPT ![r].pc = "launch"]
  /\ UNCHANGED <<tests, semaphore, task, pages, aux>>

\* executor.py:31
OvLaunched(r) ==
  /\ main[r].pc = "launch"
  /\ executor' = [executor EXCEPT !.orch._browser = "browser"]
  /\ main' = [main EXCEPT ![r].pc = "new_context"]
  /\ UNCHANGED <<tests, semaphore, task, pages, aux>>

\* executor.py:32
OvContextCreated(r) ==
  /\ main[r].pc = "new_context"
  /\ executor' = [executor EXCEPT !.orch._context = "context"]
  /\ main' = [main EXCEPT ![r].pc = "create_tasks"]
  /\ UNCHANGED <<tests, semaphore, task, pages, aux>>

\* orchestrator.py:34-43
OvCreateTasks(r) ==
  /\ main[r].pc = "create_tasks"
  /\ semaphore' = [semaphore EXCEPT ![r] = concurrency]
  /\ task' = [task EXCEPT ![r] = Idle("acquire")]
  /\ main' = [main EXCEPT ![r].pc = "gather"]
  /\ UNCHANGED <<tests, executor, pages, aux>>

\* orchestrator.py:39 and 21-23, executor.py:158-166
OvAcquire(r) ==
  /\ task[r].pc = "acquire"
  /\ semaphore[r] > 0
  /\ LET rec == Enter(task[r], "initial", tests[r]) IN
       /\ task' = [task EXCEPT ![r] = rec]
       /\ semaphore' = [semaphore EXCEPT ![r] = IF rec.pc = "raised" THEN @ ELSE @ - 1]
  /\ UNCHANGED <<tests, main, executor, pages, aux>>

\* executor.py:166-169: new_page() returns a page of the open context; on a
\* context that is None or closed it raises, and the exception leaves run_test
OvPageCreated(r) ==
  /\ task[r].pc = "new_page"
  /\ IF ContextOpen
     THEN /\ pages' = pages \cup { <<r, "initial">> }
          /\ task' = [task EXCEPT ![r].pc = "set_viewport_size"]
          /\ UNCHANGED semaphore
     ELSE /\ task' = [task EXCEPT ![r] = Idle("raised")]
          /\ semaphore' = [semaphore EXCEPT ![r] = @ + 1]
          /\ UNCHANGED pages
  /\ UNCHANGED <<tests, main, executor, aux>>

\* executor.py:169-209 and orchestrator.py:23-25: the run on the page to the
\* return of run_test, then analyze is called; when the page was closed
\* under the run its calls raise, and the exception leaves run_test
OvRunCompleted(r) ==
  /\ task[r].pc = "set_viewport_size"
  /\ IF <<r, "initial">> \in pages
     THEN /\ \E loc \in RunAll(NewLocals, task[r].test.steps, 1), dom \in DomValues :
               task' = [task EXCEPT
                 ![r].result = [id |-> task[r].test.id, verdict |-> Verdict(Artifacts(loc, dom))],
                 ![r].pc = "analyze"]
          /\ pages' = pages \ { <<r, "initial">> }
          /\ UNCHANGED semaphore
     ELSE /\ task' = [task EXCEPT ![r] = Idle("raised")]
          /\ semaphore' = [semaphore EXCEPT ![r] = @ + 1]
          /\ UNCHANGED pages
  /\ UNCHANGED <<tests, main, executor, aux>>

\* analyzer.py:21-46 and orchestrator.py:25-27, 40: analyze, with its replay
\* run on the analyzer's ExecutorAgent, to the return of the task
OvAnalyzed(r) ==
  /\ task[r].pc = "analyze"
  /\ \E loc \in RunAll(NewLocals, reduced(tests[r]).steps, 1), dom \in DomValues :
       task' = [task EXCEPT ![r] =
         Finish(r, [id |-> reduced(tests[r]).id, verdict |-> Verdict(Artifacts(loc, dom))])]
  /\ executor' =
       IF executor.ana._context = None
       THEN [executor EXCEPT !.ana = [StartedSession EXCEPT !.engines = executor.ana.engines + 1]]
       ELSE executor
  /\ semaphore' = [semaphore EXCEPT ![r] = @ + 1]
  /\ UNCHANGED <<tests, main, pages, aux>>

\* orchestrator.py:43-57, executor.py:36-38: the task is gathered, the report
\* built and stop_browser called; closing the context closes its pages
OvGathered(r) ==
  /\ main[r].pc = "gather"
  /\ task[r].pc = "done"
  /\ main' = [main EXCEPT ![r].report = Report(<<task[r].final>>),
                          ![r].pc = StopPc(executor.orch)]
  /\ pages' = IF StopPc(executor.orch) = "close_context" THEN {} ELSE pages
  /\ UNCHANGED <<tests, semaphore, task, executor, aux>>

\* orchestrator.py:44
OvGatherRaises(r) ==
  /\ main[r].pc = "gather"
  /\ task[r].pc = "raised"
  /\ main' = [main EXCEPT ![r].pc = "raised"]
  /\ UNCHANGED <<tests, semaphore, task, executor, pages, aux>>

\* executor.py:37-40
OvContextClosed(r) ==
  /\ main[r].pc = "close_context"
  /\ executor' = [executor EXCEPT !.orch._context = None]
  /\ main' = [main EXCEPT ![r].pc = StopPc(executor'.orch)]
  /\ UNCHANGED <<tests, semaphore, task, pages, aux>>

\* executor.py:40-43
OvBrowserClosed(r) ==
  /\ main[r].pc = "close_browser"
  /\ executor' = [executor EXCEPT !.orch._browser = None]
  /\ main' = [main EXCEPT ![r].pc = StopPc(executor'.orch)]
  /\ UNCHANGED <<tests, semaphore, task, pages, aux>>

\* executor.py:43-44, orchestrator.py:59
OvPlaywrightStopped(r) ==
  /\ main[r].pc = "stop_playwright"
  /\ executor' = [executor EXCEPT !.orch._playwright = None]
  /\ main' = [main EXCEPT ![r].pc = "returned"]
  /\ UNCHANGED <<tests, semaphore, task, pages, aux>>

InitOverlap ==
  /\ tests \in Batch(NumRuns, BatchSteps)
  /\ main = [r \in Runs |-> [pc |-> "idle", report |-> NoReport]]
  /\ semaphore = [r \in Runs |-> 0]
  /\ task = [r \in Runs |-> Idle("absent")]
  /\ executor = [orch |-> NoSession, ana |-> NoSession]
  /\ pages = {}
  /\ aux = [faults |-> 0, overtaken |-> FALSE]

NextOverlap ==
  \/ \E r \in Runs : OvRunCalled(r)
  \/ \E r \in Runs : OvPlaywrightStarted(r)
  \/ \E r \in Runs : OvLaunched(r)
  \/ \E r \in Runs : OvContextCreated(r)
  \/ \E r \in Runs : OvCreateTasks(r)
  \/ \E r \in Runs : OvAcquire(r)
  \/ \E r \in Runs : PlaywrightStarted(r)
  \/ \E r \in Runs : Launched(r)
  \/ \E r \in Runs : ContextCreated(r)
  \/ \E r \in Runs : OvPageCreated(r)
  \/ \E r \in Runs : OvRunCompleted(r)
  \/ \E r \in Runs : OvAnalyzed(r)
  \/ \E r \in Runs : OvGathered(r)
  \/ \E r \in Runs : OvGatherRaises(r)
  \/ \E r \in Runs : OvContextClosed(r)
  \/ \E r \in Runs : OvBrowserClosed(r)
  \/ \E r \in Runs : OvPlaywrightStopped(r)

SpecOverlap == InitOverlap /\ [][NextOverlap]_vars

\* ---- the same page twice
\* SpecPage runs one test against a page that behaves on the replay as on the
\* initial run: aux.page[j] is what the page does at the browser calls of
\* step j of the test, in whichever run executes it, and aux.dom is the
\* document content() returns.  No other call of the browser or of the
\* artifact store fails.
PageStepSet ==
  { Step("goto", u, <<>>) : u \in BOOLEAN }
  \cup { Step(a, FALSE, <<>>) :
           a \in { "wait_for", "click_if", "check_selector", "check_element_change" } }
  \cup { Step("check_value", FALSE, <<"7">>) }

\* the behaviours of a page at the steps of a list
RECURSIVE PagesOf(_)
PagesOf(steps) ==
  IF steps = <<>> THEN { <<>> }
  ELSE { <<o>> \o p : o \in PageOutcomes(Head(steps)), p \in PagesOf(Tail(steps)) }

\* analyzer.py:29-31: the position in test.steps of step k of the reduced test
Origin(steps, k) ==
  CHOOSE j \in 1..Len(steps) :
    /\ IsReplayStep(steps[j])
    /\ Cardinality({ x \in 1..j : IsReplayStep(steps[x]) }) = k

\* the position in tests[i].steps of the step task i is at
Position(i) ==
  IF task[i].phase = "initial" THEN task[i].idx ELSE Origin(tests[i].steps, task[i].idx)

\* executor.py:56-142: one iteration of the step loop, on the page
StepDonePage(i) ==
  /\ task[i].pc = "steps"
  /\ LET t == task[i]
         step == t.test.steps[t.idx]
         out == IF t.loc.test_failed_on_step THEN Outcome("none", <<>>, 0)
                ELSE aux.page[Position(i)]
     IN task' = [task EXCEPT
          ![i].loc = run_step(t.loc, step, out),
          ![i].executed = IF t.loc.test_failed_on_step THEN @ ELSE Append(@, t.idx),
          ![i].obs = Append(@, IF t.loc.test_failed_on_step THEN Outcome("skipped", <<>>, 0) ELSE out),
          ![i].idx = t.idx + 1,
          ![i].pc = IF t.idx = Len(t.test.steps) THEN "capture" ELSE "steps"]
  /\ UNCHANGED <<tests, main, semaphore, executor, pages, aux>>

\* executor.py:144-145 and 174: content() returns the page's document
CapturedPage(i) ==
  /\ task[i].pc = "capture"
  /\ task' = [task EXCEPT ![i].dom = aux.dom, ![i].pc = "close"]
  /\ UNCHANGED <<tests, main, semaphore, executor, pages, aux>>

InitPage ==
  /\ tests \in Batch(1, { l \in StepLists(MaxSteps) : \A k \in 1..Len(l) : l[k] \in PageStepSet })
  /\ \E p \in PagesOf(tests[1].steps), d \in DomValues :
       aux = [faults |-> 0, overtaken |-> FALSE, page |-> p, dom |-> d]
  /\ main = [pc |-> "idle", i |-> 0, results |-> <<>>, report |-> NoReport, stops |-> 0]
  /\ semaphore = 0
  /\ task = [i \in Tasks |-> Idle("absent")]
  /\ executor = [orch |-> NoSession, ana |-> NoSession]
  /\ pages = {}

NextPage ==
  \/ RunCalled
  \/ MainPlaywrightStarted
  \/ MainLaunched
  \/ MainContextCreated
  \/ CreateTasks
  \/ \E i \in Tasks : Acquire(i)
  \/ \E i \in Tasks : PlaywrightStarted(i)
  \/ \E i \in Tasks : Launched(i)
  \/ \E i \in Tasks : ContextCreated(i)
  \/ \E i \in Tasks : PageCreated(i)
  \/ \E i \in Tasks : ViewportSet(i)
  \/ \E i \in Tasks : StepDonePage(i)
  \/ \E i \in Tasks : CapturedPage(i)
  \/ \E i \in Tasks : Closed(i)
  \/ Gathered
  \/ ContextClosed
  \/ BrowserClosed
  \/ PlaywrightStopped

SpecPage == InitPage /\ [][NextPage]_vars

\* ------------------------------------------------------------------ claims
Finished(i) == task[i].pc \in { "done", "raised" }

\* the run_test calls that hold a page between new_page() and page.close()
HoldsPage(i, phase) ==
  /\ task[i].phase = phase
  /\ task[i].pc \in { "set_viewport_size", "steps", "capture", "close" }

\* C1: while run is in progress at most 5 pages are open, the pages of the
\* initial runs and of the replay runs counted together.
C1_AtMostFivePages ==
  main.pc = "gather" => Cardinality(pages) <= 5

\* C2: the exception of one test's task never terminates the batch: run does
\* not end by raising the exception of a task.
C2_FailureLocalized ==
  ~(main.pc = "raised" /\ \E i \in Tasks : task[i].pc = "raised")

\* C3: whenever run has ended, by return or by exception, stop_browser was
\* called exactly once, and it is never called before every task has ended.
C3_StoppedOnceAfterAll ==
  /\ main.pc \in { "returned", "raised" } => main.stops = 1
  /\ main.stops <= 1
  /\ main.stops = 1 => \A i \in Tasks : Finished(i)

\* C4: no page stays open after the run_test call that created it has ended:
\* every open page belongs to a call that is still between new_page() and
\* the return of page.close().
C4_PagesClosedOnExit ==
  \A p \in pages : HoldsPage(p[1], p[2])

\* run has built its report (orchestrator.py:47-54) and is in or past stop_browser
Reported == main.pc \in { "close_context", "close_browser", "stop_playwright", "returned" }

\* C5: the report built by run has total = len(tests) and
\* passed + failed = total.
C5_SummaryCounts ==
  Reported =>
    /\ main.report.summary.total = Len(tests)
    /\ main.report.summary.passed + main.report.summary.failed
         = main.report.summary.total

C5_Witness ==
  /\ main.pc = "returned"
  /\ main.report.summary.passed >= 1
  /\ main.report.summary.failed >= 1

\* C6: the report has one entry per submitted test, the k-th entry having the
\* id of the k-th submitted test, whatever order the tasks completed in.
C6_SubmissionOrder ==
  Reported =>
    /\ Len(main.report.tests) = Len(tests)
    /\ \A k \in 1..Len(tests) : main.report.tests[k].id = tests[k].id

\* run has returned a report and a test finished before one submitted earlier
C6_Witness ==
  /\ main.pc = "returned"
  /\ aux.overtaken

\* ---- the step interpreter
\* the run_test calls that are inside _run_steps or past it
InRun(i) == task[i].pc \in { "steps", "capture", "close" }

\* the events that set criticalFailure, read off the observed outcome of a step
Mismatch(step, out) ==
  /\ step.action = "check_value"
  /\ out.kind = "ok"
  /\ strip(out.text) # strip(step.expected_value)

CriticalEvent(step, out) ==
  \/ Mismatch(step, out)
  \/ step.action = "check_element_change" /\ out.kind = "raise"
  \/ /\ step.action \in { "goto", "check_selector", "check_value", "check_element_change" }
     /\ Escapes(step, out)

IsSkipLog(e) == e.type = "info"
IsErrorLog(e) == e.type = "error"

\* C7: once a step has set criticalFailure the flag stays set and every later
\* step is skipped: it is not executed, and one step_skipped entry is logged
\* for it; every step is processed, executed or skipped; a check_value whose
\* trimmed text differs from the trimmed expected value sets the flag.
C7_SkipAfterCriticalFailure ==
  \A i \in Tasks : InRun(i) =>
    LET t == task[i]
        steps == t.test.steps
        n == Len(t.obs)
        m == Len(t.executed)
    IN /\ t.idx = n + 1
       /\ t.pc \in { "capture", "close" } => n = Len(steps)
       /\ \A k \in 1..m : t.executed[k] = k
       /\ \A k \in 1..n : (t.obs[k].kind = "skipped") <=> (k > m)
       /\ \A k \in 1..m : CriticalEvent(steps[k], t.obs[k]) =>
            /\ t.loc.test_failed_on_step
            /\ k = m
       /\ m < n => t.loc.test_failed_on_step
       /\ SelectSeq(t.loc.console_logs, IsSkipLog)
            = [k \in 1..(n - m) |->
                 Log("info", <<"step_skipped", steps[m + k].action, "previous_assertion_failure">>)]

\* a check_value mismatch at the first of three steps, the other two skipped
C7_Witness ==
  \E i \in Tasks :
    /\ task[i].pc = "close"
    /\ task[i].phase = "initial"
    /\ Len(task[i].test.steps) = 3
    /\ Mismatch(task[i].test.steps[1], task[i].obs[1])
    /\ task[i].obs[1].text # task[i].test.steps[1].expected_value
    /\ task[i].executed = <<1>>
    /\ Len(SelectSeq(task[i].loc.console_logs, IsSkipLog)) = 2

\* run_test returns a verdict: page.close() has returned and nothing raised
Returns(i) == task[i].pc = "close" /\ task'[i].pc \notin { "close", "raised" }

ReturnedVerdict(i) ==
  IF task[i].phase = "initial" THEN task'[i].result.verdict
  ELSE task'[i].final.analysis.replay_verdict

\* C8: the verdict run_test returns is fail if criticalFailure is set,
\* otherwise pass if the captured DOM is non-empty, otherwise fail; the
\* network log plays no part.
C8_VerdictRule ==
  [][\A i \in Tasks : Returns(i) =>
       ReturnedVerdict(i) =
         IF task[i].loc.test_failed_on_step THEN "fail"
         ELSE IF task[i].dom # "" THEN "pass"
         ELSE "fail"]_vars

\* a test with no navigation, so with an empty network log, has passed
C8_Witness ==
  \E i \in Tasks :
    /\ task[i].pc = "done"
    /\ task[i].final.verdict = "pass"
    /\ tests[i].steps # <<>>
    /\ \A k \in 1..Len(tests[i].steps) : tests[i].steps[k].action # "goto"

\* the actions of the executed steps an exception escaped from, in order
RECURSIVE EscapedActions(_, _, _)
EscapedActions(steps, obs, k) ==
  IF k > Len(obs) THEN <<>>
  ELSE (IF obs[k].kind # "skipped" /\ Escapes(steps[k], obs[k])
        THEN <<steps[k].action>> ELSE <<>>)
       \o EscapedActions(steps, obs, k + 1)

\* C9: an exception escaping a step is logged as step_error:<action>; it sets
\* criticalFailure when the action is goto, check_selector, check_value or
\* check_element_change, and otherwise leaves the flag unset and the next
\* step is executed; a goto without url is logged so and sets the flag.
C9_StepErrors ==
  \A i \in Tasks : InRun(i) =>
    LET t == task[i]
        steps == t.test.steps
        n == Len(t.obs)
        errors == SelectSeq(t.loc.console_logs, IsErrorLog)
        escaped == EscapedActions(steps, t.obs, 1)
    IN /\ Len(errors) = Len(escaped)
       /\ \A r \in 1..Len(errors) :
            /\ errors[r].text[1] = "step_error"
            /\ errors[r].text[2] = escaped[r]
       /\ \A k \in 1..n :
            /\ (t.obs[k].kind # "skipped" /\ Escapes(steps[k], t.obs[k])) =>
                 IF steps[k].action \in { "goto", "check_selector", "check_value", "check_element_change" }
                 THEN t.loc.test_failed_on_step
                 ELSE IF k < n THEN t.obs[k + 1].kind # "skipped"
                 ELSE ~t.loc.test_failed_on_step
            /\ (steps[k].action = "goto" /\ ~steps[k].has_url /\ t.obs[k].kind # "skipped") =>
                 /\ t.loc.test_failed_on_step
                 /\ steps[k].action \in Range(escaped)

\* a wait_for that raised, then a goto without url was executed and set the flag
C9_Witness ==
  \E i \in Tasks :
    /\ task[i].pc = "close"
    /\ Len(task[i].test.steps) >= 2
    /\ task[i].test.steps[1].action = "wait_for"
    /\ task[i].obs[1].kind = "raise"
    /\ task[i].test.steps[2].action = "goto"
    /\ ~task[i].test.steps[2].has_url
    /\ task[i].executed = <<1, 2>>
    /\ task[i].loc.test_failed_on_step

\* the verdict as a function of what one run observed: the outcome of each of
\* its steps and the DOM it captured
PureVerdict(steps, obs, dom) ==
  IF \E k \in 1..Len(obs) : obs[k].kind # "skipped" /\ CriticalEvent(steps[k], obs[k])
  THEN "fail"
  ELSE IF dom # "" THEN "pass"
  ELSE "fail"

\* C10: the verdict a run_test call returns is a function of the step
\* outcomes and the DOM that call observed, whatever the other calls in
\* flight on the same ExecutorAgent observed: so two calls that observe the
\* same return the same verdict.
C10_VerdictOfOwnRun ==
  [][\A i \in Tasks : Returns(i) =>
       ReturnedVerdict(i) = PureVerdict(task[i].test.steps, task[i].obs, task[i].dom)]_vars

\* two calls in flight on one ExecutorAgent, one with the flag set, the other
\* without it and about to return pass
C10_Witness ==
  \E i, j \in Tasks :
    /\ i # j
    /\ task[i].pc = "close" /\ task[j].pc = "close"
    /\ task[i].phase = task[j].phase
    /\ ~task[i].exc /\ ~task[j].exc
    /\ task[i].loc.test_failed_on_step
    /\ ~task[j].loc.test_failed_on_step
    /\ task[j].dom # ""

\* ---- the browser session
SessionStarted(ex) == ex._playwright # None /\ ex._browser # None /\ ex._context # None

\* C11: start_browser is idempotent: after one or more start_browser calls
\* made with no stop_browser call since, exactly one engine, one browser and
\* one context have been created and the session holds them; a call on a
\* started session creates nothing.
C11_StartIdempotent ==
  (main.pc = "idle" /\ main.starts >= 1) =>
    /\ main.created = <<"engine", "browser", "context">>
    /\ SessionStarted(executor.orch)

\* three start_browser calls in a row have returned
C11_Witness ==
  /\ main.pc = "idle"
  /\ main.starts = 3

\* C12: stop_browser closes the context, then the browser, then the engine,
\* each only if it is open; a second stop_browser call closes nothing; after
\* stop_browser the three handles are cleared, and a later start_browser
\* creates a new session.
C12_StopIdempotentOrdered ==
  /\ main.stops >= 1 =>
       /\ \E n \in 0..3 : main.closed = SubSeq(OpenResources(main.before), 1, n)
       /\ main.pc = "idle" =>
            /\ main.closed = OpenResources(main.before)
            /\ executor.orch._context = None
            /\ executor.orch._browser = None
            /\ executor.orch._playwright = None
  /\ main.stops >= 2 => main.closed = <<>> /\ main.pc = "idle"
  /\ (main.stopped /\ main.starts >= 1 /\ main.pc = "idle") =>
       /\ main.created = <<"engine", "browser", "context">>
       /\ SessionStarted(executor.orch)

\* a started session was stopped, stop_browser was called again, and then
\* start_browser
C12_Witness ==
  /\ main.pc = "idle"
  /\ main.stopped
  /\ main.starts = 1
  /\ executor.orch.engines >= 2
  /\ main.calls >= 4

\* ---- the analyzer
\* the positions of the steps of a list that a replay keeps
Kept(steps) ==
  { j \in 1..Len(steps) : steps[j].action \in { "goto", "check_selector", "wait_for" } }

AnalyzeReturns(i) ==
  /\ task[i].phase = "replay"
  /\ task[i].pc = "close"
  /\ task'[i].pc = "done"

\* C14: when analyze returns, replay_verdict is the verdict of the replay
\* run, reproducible is true exactly when the verdict of the initial run
\* equals it, and score is 1.0 when reproducible and 0.0 otherwise.
C14_Reproducible ==
  [][\A i \in Tasks : AnalyzeReturns(i) =>
       LET replay == PureVerdict(task[i].test.steps, task[i].obs, task[i].dom)
           initial == task[i].result.verdict
           a == task'[i].final.analysis
       IN /\ a.replay_verdict = replay
          /\ a.reproducible <=> (initial = replay)
          /\ a.score = IF a.reproducible THEN "1.0" ELSE "0.0"]_vars

\* a test that passed and whose replay failed, next to one that failed twice
C14_Witness ==
  \E i, j \in Tasks :
    /\ task[i].pc = "done" /\ task[j].pc = "done"
    /\ task[i].final.verdict = "pass"
    /\ task[i].final.analysis.replay_verdict = "fail"
    /\ ~task[i].final.analysis.reproducible
    /\ task[i].final.analysis.score = "0.0"
    /\ task[j].final.verdict = "fail"
    /\ task[j].final.analysis.replay_verdict = "fail"
    /\ task[j].final.analysis.reproducible
    /\ task[j].final.analysis.score = "1.0"

\* ---- whole tests
\* a goto with a url, then check_selector
GotoThenCheck == <<Step("goto", TRUE, <<>>), Step("check_selector", FALSE, <<>>)>>

\* no browser call of the run failed and the page had content: the navigation
\* succeeded, the selector was found, content() returned the document
RanClean(i) ==
  /\ \A k \in 1..Len(task[i].obs) : task[i].obs[k].kind \in { "ok", "none", "skipped" }
  /\ task[i].dom # ""

\* C15: a run_test call on a test whose steps are a goto that succeeds
\* followed by check_selector("body"), with no failure of the browser or of
\* the artifact store, returns the verdict pass.
C15_GotoBodyPasses ==
  [][\A i \in Tasks :
       (Returns(i) /\ task[i].test.steps = GotoThenCheck /\ RanClean(i))
         => ReturnedVerdict(i) = "pass"]_vars

\* such a test has passed, its navigation having logged no network event
C15_Witness ==
  \E i \in Tasks :
    /\ task[i].phase = "replay"
    /\ tests[i].steps = GotoThenCheck
    /\ task[i].result.verdict = "pass"
    /\ task[i].pc = "close"
    /\ RanClean(i)
    /\ task[i].loc.network = <<>>

\* C16: for a test with no goto, check_selector or wait_for step the replay
\* test has no step, and its run returns a verdict, pass when the captured
\* DOM is non-empty and fail otherwise, without raising: such a test's task
\* ends by an exception only when the browser or the artifact store failed.
C16_EmptyReplayReturns ==
  /\ [](\A i \in Tasks : Kept(tests[i].steps) = {} =>
          /\ task[i].phase = "replay" => task[i].test.steps = <<>>
          /\ task[i].pc = "raised" => aux.faults < NumTests)
  /\ [][\A i \in Tasks :
          (Kept(tests[i].steps) = {} /\ task[i].phase = "replay" /\ Returns(i))
            => ReturnedVerdict(i) = IF task[i].dom # "" THEN "pass" ELSE "fail"]_vars

\* ---- the lazy start
\* task i enters run_test and new_page() is called on a context that is None
\* (executor.py:166): the task ends by an exception that no failure of the
\* browser or of the artifact store caused
NewPageOnMissingContext(i) ==
  /\ task[i].pc \in { "acquire", "close" }
  /\ ~task[i].exc
  /\ task'[i].pc = "raised"
  /\ aux'.faults = aux.faults

\* C20: whenever run_test requests a page a started context exists, also when
\* several run_test calls are in flight on an ExecutorAgent that was never
\* started beforehand: none calls new_page() on a missing context, and
\* together they start at most one engine (each engine started goes on to
\* launch its browser and create its context, executor.py:30-32).
C20_LazyStart ==
  /\ [](\A e \in { "orch", "ana" } : executor[e].engines <= 1)
  /\ [](\A i \in Tasks : task[i].pc = "new_page" =>
          executor[ExecutorOf(task[i].phase)]._context # None)
  /\ [][\A i \in Tasks : ~NewPageOnMissingContext(i)]_vars

\* ---- the end-to-end batch
\* C17: run on the batch of the three tests returns a Report with total 3,
\* passed 1, failed 2: it does not end by an exception; test 1 passes; in
\* test 2 the steps after the check_value are skipped; test 3 fails by the
\* exception of its goto.
C17_EndToEnd ==
  /\ main.pc # "raised"
  /\ \A i \in Tasks : task[i].pc # "raised"
  /\ Reported =>
       /\ main.report.summary = [total |-> 3, passed |-> 1, failed |-> 2]
       /\ main.report.tests[1].verdict = "pass"
       /\ main.report.tests[2].verdict = "fail"
       /\ main.report.tests[3].verdict = "fail"
  /\ (task[2].pc = "close" /\ task[2].phase = "initial") =>
       /\ task[2].executed = <<1, 2>>
       /\ SelectSeq(task[2].loc.console_logs, IsSkipLog)
            = << Log("info", <<"step_skipped", "click_if", "previous_assertion_failure">>),
                 Log("info", <<"step_skipped", "submit", "previous_assertion_failure">>) >>
  /\ (task[3].pc = "close" /\ task[3].phase = "initial") =>
       /\ task[3].loc.test_failed_on_step
       /\ task[3].loc.console_logs = << Log("error", <<"step_error", "goto", "exc">>) >>

\* ---- termination
\* run has ended, every test was admitted and has ended, and every slot is free
Quiescent ==
  /\ main.pc \in { "returned", "raised" }
  /\ \A i \in Tasks : Finished(i)
  /\ semaphore = concurrency

\* C18: with every browser call ending and the tasks scheduled fairly, run on
\* a batch ends; every test that waits for a slot is admitted; every admitted
\* test ends, by return or by exception, and its slot is released: the batch
\* comes to rest with run ended, every test ended and all slots free.
C18_NoHang == <>[]Quiescent

\* the sixth test, which had to wait for a slot, has returned, a test
\* admitted before it having ended by an exception
C18_Witness ==
  /\ task[NumTestsCap].pc = "done"
  /\ \E j \in Tasks : task[j].pc = "raised"
  /\ \A i \in Tasks : Finished(i)
  /\ semaphore = concurrency

\* ---- the artifact store
\* the paths of the four files of a test id
FilesOf(id) == { join(join(ARTIFACTS_DIR, id), <<n>>) : n \in FileNames }

\* C19: a save for a test id leaves each of its four files holding exactly
\* the bytes of that save, whatever an earlier save for the same id wrote;
\* the files of distinct ids are distinct, and a save changes no file of
\* another id and adds none to it.
C19_OverwriteSemantics ==
  /\ [][main'.saves # main.saves =>
          LET id == main'.last.id
              artifacts == main'.last.artifacts
          IN /\ \A n \in FileNames :
                  aux'.files[join(join(ARTIFACTS_DIR, id), <<n>>)] = artifacts[n]
             /\ DOMAIN aux'.files = DOMAIN aux.files \cup FilesOf(id)
             /\ \A q \in DOMAIN aux.files \ FilesOf(id) : aux'.files[q] = aux.files[q]]_vars
  /\ [](\A i, j \in StoreIds : i # j => FilesOf(i) \cap FilesOf(j) = {})

\* two saves for one id with different bytes in each of the four files, the
\* second shorter in some, while another id has files
C19_Witness ==
  /\ main.saves = 3
  /\ main.prev.id = main.last.id
  /\ \A n \in FileNames : main.prev.artifacts[n] # main.last.artifacts[n]
  /\ \E n \in FileNames : Len(main.last.artifacts[n]) < Len(main.prev.artifacts[n])
  /\ \E j \in StoreIds : j # main.last.id /\ FilesOf(j) \subseteq DOMAIN aux.files

\* ---- the slot of a test
\* the tests in their execute-or-analyze phase: inside run_test or analyze
Active == { i \in Tasks : task[i].pc \notin { "absent", "acquire", "done", "raised" } }

\* C21: a test holds one slot from before its run_test starts until its
\* analyze has returned or raised: the slots taken are those of the tests in
\* their execute-or-analyze phase, so at most 5 tests are in it; and the
\* analysis of a test runs only once its own run_test has returned.
C21_AnalyzeInSlot ==
  /\ Cardinality(Active) <= concurrency
  /\ (Len(tests) > 0 /\ task[1].pc # "absent") =>
       semaphore = concurrency - Cardinality(Active)
  /\ \A i \in Tasks : task[i].phase = "replay" =>
       /\ task[i].result.id = tests[i].id
       /\ task[i].result.verdict \in { "pass", "fail" }

\* five tests hold the five slots, some of them in analyze, and the sixth waits
C21_Witness ==
  /\ Cardinality(Active) = concurrency
  /\ semaphore = 0
  /\ \E i \in Tasks : task[i].phase = "replay" /\ task[i].pc = "set_viewport_size"
  /\ \E i \in Tasks : task[i].phase = "initial"
  /\ task[NumTestsCap].pc = "acquire"

\* ---- the sessions at the end of a batch
\* C22: when run has returned, no ExecutorAgent the batch used, that of the
\* orchestrator or that of the analyzer, holds an engine, a browser or a
\* context.
C22_AllSessionsStopped ==
  main.pc = "returned" =>
    \A e \in { "orch", "ana" } :
      /\ executor[e]._playwright = None
      /\ executor[e]._browser = None
      /\ executor[e]._context = None

\* ---- overlapping batches
\* the run_test call of the test of call r is between its session check and
\* the closing of its page, on the orchestrator's ExecutorAgent
InFlightShared(r) ==
  /\ task[r].phase = "initial"
  /\ task[r].pc \in { "new_page", "set_viewport_size" }

\* C23: while a run_test call that uses the shared session is in flight, the
\* session is not shut down: its context is there and no stop_browser call
\* is closing it or has closed it, also when two calls of run overlap on
\* one OrchestratorAgent.
C23_NoStopUnderTest ==
  \A r \in Runs : InFlightShared(r) =>
    /\ executor.orch._context # None
    /\ \A q \in Runs : main[q].pc \notin { "close_context", "close_browser", "stop_playwright" }

\* ---- the same page twice
\* the check of a check_value step finds another text than the expected one,
\* or the element of a check_element_change step does not become visible
CheckFails(step, out) ==
  \/ /\ step.action = "check_value"
     /\ out.kind = "ok"
     /\ strip(out.text) # strip(step.expected_value)
  \/ /\ step.action = "check_element_change"
     /\ out.kind = "raise"

\* every goto and check_selector step of the test succeeds on the page when
\* it is executed, in the initial run or in the replay
NavigationSucceeds(steps, page) ==
  \A j \in 1..Len(steps) :
    /\ steps[j].action = "goto" => steps[j].has_url /\ page[j].kind = "ok"
    /\ steps[j].action = "check_selector" => page[j].kind = "ok"

\* the first check of the test that does not succeed fails by a mismatch or
\* by a timeout of check_element_change, not by an exception of check_value
FirstFailureIsCheck(steps, page) ==
  \E j \in 1..Len(steps) :
    /\ CheckFails(steps[j], page[j])
    /\ \A k \in 1..(j - 1) :
         /\ ~CheckFails(steps[k], page[k])
         /\ ~(steps[k].action = "check_value" /\ page[k].kind = "raise")

\* the initial run of test i failed, and only by such a check: the document
\* had content, and every goto and check_selector step succeeds on the page
FailedOnlyByCheck(i) ==
  /\ task[i].final.verdict = "fail"
  /\ aux.dom # ""
  /\ NavigationSucceeds(tests[i].steps, aux.page)
  /\ FirstFailureIsCheck(tests[i].steps, aux.page)

\* C24: on a page that behaves on the replay as on the initial run, when the
\* initial run of a test failed only by a check_value mismatch or a
\* check_element_change timeout, every goto and check_selector step of the
\* test succeeding when executed, the replay has the verdict pass and
\* analyze returns reproducible = false and score = 0.0.
C24_FailedCheckNotReproducible ==
  \A i \in Tasks : (task[i].pc = "done" /\ FailedOnlyByCheck(i)) =>
    task[i].final.analysis =
      [replay_verdict |-> "pass", reproducible |-> FALSE, score |-> "0.0"]

\* such a test has been analyzed: its check_value found "8" for "7", so its
\* wait_for and its goto were skipped by the initial run; the replay met the
\* timeout of the wait_for and went on to the goto
C24_Witness ==
  \E i \in Tasks :
    /\ task[i].pc = "done"
    /\ FailedOnlyByCheck(i)
    /\ tests[i].steps = <<Step("check_value", FALSE, <<"7">>), Step("wait_for", FALSE, <<>>),
                          Step("goto", TRUE, <<>>)>>
    /\ aux.page = <<Outcome("ok", <<"8">>, 0), Outcome("raise", <<>>, 0), Outcome("ok", <<>>, 1)>>
    /\ ~task[i].final.analysis.reproducible

====
